---- MODULE Spec2Model ----
(***************************************************************************)
(* Model of the document ingestion Lambda                                  *)
(* (src/lambdas/document_ingestion/index.py).                              *)
(*                                                                         *)
(* A Python str is modelled as a sequence of atoms.  The characters of an  *)
(* object key are one-character atoms, so that percent-decoding, split and *)
(* lower are computed on them; fixed literals of the code and messages of  *)
(* the services are single atoms.  The empty sequence is the empty str.    *)
(***************************************************************************)
EXTENDS Integers, Sequences, FiniteSets, TLC

(***************************************************************************)
(* Bounds of the model.                                                    *)
(***************************************************************************)
MaxBatch == 2
MaxPolls == 1
MaxPages == 2

(***************************************************************************)
(* String helpers: urllib.parse.unquote_plus, str.split(sep)[-1],          *)
(* str.lower, str.join.                                                    *)
(***************************************************************************)
HexDigits == <<"0","1","2","3","4","5","6","7","8","9",
               "A","B","C","D","E","F","a","b","c","d","e","f">>

IsHex(c) == \E n \in 1..Len(HexDigits) : HexDigits[n] = c

HexVal(c) ==
    LET n == CHOOSE m \in 1..Len(HexDigits) : HexDigits[m] = c
    IN  IF n <= 16 THEN n - 1 ELSE n - 7

\* The ASCII characters that the escapes of the modelled keys denote.
Chr(n) ==
    CASE n = 32 -> " "
      [] n = 37 -> "%"
      [] n = 43 -> "+"
      [] n = 46 -> "."
      [] n = 47 -> "/"
      [] OTHER  -> "chr" \o ToString(n)

RECURSIVE unquote(_)
unquote(s) ==
    IF s = <<>> THEN <<>>
    ELSE IF s[1] = "%" /\ Len(s) >= 3 /\ IsHex(s[2]) /\ IsHex(s[3])
         THEN <<Chr(16 * HexVal(s[2]) + HexVal(s[3]))>> \o unquote(SubSeq(s, 4, Len(s)))
         ELSE <<s[1]>> \o unquote(Tail(s))

unquote_plus(s) ==
    unquote([n \in 1..Len(s) |-> IF s[n] = "+" THEN " " ELSE s[n]])

\* s.split(sep)[-1]: what follows the last sep, the whole of s when it has none.
RECURSIVE LastPiece(_, _)
LastPiece(s, sep) ==
    IF \E n \in 1..Len(s) : s[n] = sep
    THEN LastPiece(Tail(s), sep)
    ELSE s

UpperCase == <<"A","B","C","D","E","F","G","H","I","J","K","L","M",
               "N","O","P","Q","R","S","T","U","V","W","X","Y","Z">>
LowerCase == <<"a","b","c","d","e","f","g","h","i","j","k","l","m",
               "n","o","p","q","r","s","t","u","v","w","x","y","z">>

LowerChar(c) ==
    IF \E n \in 1..26 : UpperCase[n] = c
    THEN LowerCase[CHOOSE n \in 1..26 : UpperCase[n] = c]
    ELSE c

lower(s) == [n \in 1..Len(s) |-> LowerChar(s[n])]

\* '\n'.join(lines)
RECURSIVE Join(_)
Join(lines) ==
    IF lines = <<>> THEN <<>>
    ELSE IF Len(lines) = 1 THEN lines[1]
    ELSE lines[1] \o <<"\n">> \o Join(Tail(lines))


(***************************************************************************)
(* Inputs and what the collaborating services may answer.                  *)
(***************************************************************************)
KeyTxt  == <<"f","o","l","d","e","r","/","m","y","%","2","0","f","i","l","e",".","t","x","t">>
KeyDocx == <<"a",".","D","O","C","X">>
KeyPdf  == <<"s","+","1",".","p","d","f">>
KeyExe  == <<"x",".","e","x","e">>
Keys == {KeyTxt, KeyDocx, KeyPdf, KeyExe}

\* event['Records'], each record reduced to its object key
Batches == UNION {[1..n -> Keys] : n \in 1..MaxBatch}

TextA == <<"h","i">>
TextB == <<"y","o">>
Bodies == {<<>>, TextA, TextB}

\* str(e) of an exception raised by a service call
ErrS3       == <<"An error occurred (AccessDenied)">>
ErrTextract == <<"An error occurred (ThrottlingException)">>

\* result pages of a Textract job: each page is response['Blocks']
Block(t, x) == [BlockType |-> t, Text |-> x]
\* page p of a scanned document: its lines carry the page number
Page(p) == <<Block("PAGE", <<>>),
             Block("LINE", <<"line a of page ", ToString(p)>>),
             Block("WORD", <<"word of page ", ToString(p)>>),
             Block("LINE", <<"line b of page ", ToString(p)>>)>>
\* a page on which no line was recognised
BlankPage == <<Block("PAGE", <<>>)>>
Jobs == {[p \in 1..n |-> Page(p)] : n \in 1..MaxPages} \cup {<<BlankPage>>}

JobStatuses == {"IN_PROGRESS", "SUCCEEDED", "FAILED", "PARTIAL_SUCCESS"}
\* response.get('StatusMessage'): absent (<<>>) or the service's message
StatusMessages == {<<>>, <<"INVALID_IMAGE_TYPE">>}

PollInterval == 3

None == 0

VARIABLES
    index,        \* the documents of the 'enterprise-docs' index: {[id, body]}
    lastCommit,   \* history: for each id, the body of its last acknowledged write
    batch,        \* event['Records'] of the running invocation
    i,            \* position of the current record in batch
    pc,           \* control point of lambda_handler / extract_text_from_file
    key,          \* record['s3']['object']['key'] (original_key)
    content,      \* the text extract_text_from_file returns
    kind,         \* history: which return of extract_text_from_file was taken
    branch,       \* history: the branch extract_text_from_file took for the record
    docx_outcome, \* history: what the calls of extract_text_from_docx met
    raised,       \* history: an exception was caught while extracting the record
    job_status,   \* JobStatus of the Textract job at the service ("none": no job)
    status,       \* status = response['JobStatus'] of the last poll ("none": no poll)
    polls,        \* iterations of the status loop made so far
    pages,        \* result pages of the Textract job
    next_token,   \* next_token of the pagination loop
    text_content, \* text_content of the pagination loop
    fetched,      \* history: page numbers retrieved by the pagination loop
    head,         \* history: how s3.head_object ended for the record
    document,     \* the document prepared for indexing
    statusCode,   \* statusCode of the last response returned (0: none yet)
    calls,        \* history: service calls of extract_text_from_file for the record
    hcalls,       \* history: service calls of lambda_handler itself for the record
    log,          \* history: outcome of each finished record of the batch
    inv,          \* concurrent invocations of lambda_handler: the state of each
    replaced,     \* history: ids whose document another invocation's write replaced
    qpc,          \* control point of the search lambda_handler
    query,        \* query = body.get("query")
    retrieved_docs, \* retrieved_docs = retrieve_docs(query, opensearch_client)
    attempt,      \* attempt of the loop of generate_response
    ai_response,  \* ai_response = generate_response(query, retrieved_docs)
    response,     \* the response the search lambda_handler returned
    qcalls        \* history: service calls and sleeps of the search lambda_handler

vars == <<index, lastCommit, batch, i, pc, key, content, kind, branch, docx_outcome,
          raised, job_status, status, polls, pages, next_token, text_content, fetched,
          head, document, statusCode, calls, hcalls, log,
          inv, replaced,
          qpc, query, retrieved_docs, attempt, ai_response, response, qcalls>>

concVars == <<inv, replaced>>
queryVars == <<qpc, query, retrieved_docs, attempt, ai_response, response, qcalls>>

NoDoc == [content |-> <<>>, title |-> <<>>, document_id |-> <<>>,
          file_type |-> <<>>, upload_date |-> "", last_modified |-> ""]

NoOutcome == [exc |-> "none", rc |-> -1, stdout |-> <<>>]

Call(op, arg, n) == [op |-> op, arg |-> arg, n |-> n]

\* number of lambda_handler invocations running side by side
NumInvocations == 2
Invocations == 1..NumInvocations

\* an invocation that has not started: left is the number of records of its
\* event still to be processed
IdleInv == [pc |-> "idle", left |-> 0, key |-> <<>>, document |-> NoDoc,
            statusCode |-> 0]

\* no concurrent invocation has started
ConcIdle ==
    /\ inv = [p \in Invocations |-> IdleInv]
    /\ replaced = {}

NoResponse == [statusCode |-> 0, error |-> <<>>, query |-> <<>>,
               response |-> <<>>, sources |-> <<>>]

\* the search lambda_handler has not been invoked
QueryIdle ==
    /\ qpc = "idle"
    /\ query = <<>>
    /\ retrieved_docs = <<>>
    /\ attempt = 0
    /\ ai_response = <<>>
    /\ response = NoResponse
    /\ qcalls = <<>>

Init ==
    /\ index = {}
    /\ lastCommit = [k \in {} |-> NoDoc]
    /\ batch = <<>>
    /\ i = 0
    /\ pc = "idle"
    /\ key = <<>>
    /\ content = <<>>
    /\ kind = "none"
    /\ branch = "none"
    /\ docx_outcome = NoOutcome
    /\ raised = FALSE
    /\ job_status = "none"
    /\ status = "none"
    /\ polls = 0
    /\ pages = <<>>
    /\ next_token = None
    /\ text_content = <<>>
    /\ fetched = <<>>
    /\ head = "none"
    /\ document = NoDoc
    /\ statusCode = 0
    /\ calls = <<>>
    /\ hcalls = <<>>
    /\ log = <<>>
    /\ ConcIdle
    /\ QueryIdle


(***************************************************************************)
(* Pieces of extract_text_from_file and lambda_handler.                    *)
(***************************************************************************)
\* decoded_key = urllib.parse.unquote_plus(key)
decoded_key == unquote_plus(key)

\* file_ext = decoded_key.split('.')[-1].lower()
FileExt(dk) == lower(LastPiece(dk, "."))

TextExts   == {<<"t","x","t">>, <<"j","s","o","n">>, <<"m","d">>}
OfficeExts == {<<"d","o","c","x">>, <<"d","o","c">>}
OcrExts    == {<<"p","d","f">>, <<"p","n","g">>, <<"j","p","g">>, <<"j","p","e","g">>}

\* the branch the if/elif chain of extract_text_from_file takes
Category(dk) ==
    IF FileExt(dk) \in TextExts THEN "PlainText"
    ELSE IF FileExt(dk) \in OfficeExts THEN "OfficeDocument"
    ELSE IF FileExt(dk) \in OcrExts THEN "ScannedOrImage"
    ELSE "Unsupported"

\* (variant) the storage calls are given the decoded key
StorageKeyDecoded == unquote_plus(key)

\* the Key= / Name= argument of the storage and Textract calls
StorageKey == key

\* the id= argument of opensearch.index
IndexId == key

\* what extract_text_from_docx returns for an outcome of its calls:
\* result.stdout when pandoc exits 0, None otherwise and on any exception
DocxOutcomes ==
    {[exc |-> "get_object", rc |-> 0, stdout |-> <<>>],
     [exc |-> "run",        rc |-> 0, stdout |-> <<>>],
     [exc |-> "none",       rc |-> 0, stdout |-> TextA],
     [exc |-> "none",       rc |-> 0, stdout |-> <<>>],
     [exc |-> "none",       rc |-> 1, stdout |-> <<>>],
     [exc |-> "none",       rc |-> 1, stdout |-> TextB]}

\* (variant) result.stdout is returned whatever the exit code of pandoc
extract_text_from_docx_any_exit(o) ==
    IF o.exc = "none"
    THEN [isNone |-> FALSE, text |-> o.stdout]
    ELSE [isNone |-> TRUE,  text |-> <<>>]

extract_text_from_docx(o) ==
    IF o.exc = "none" /\ o.rc = 0
    THEN [isNone |-> FALSE, text |-> o.stdout]
    ELSE [isNone |-> TRUE,  text |-> <<>>]

\* the calls extract_text_from_docx makes for an outcome
DocxCalls(o) ==
    <<Call("get_object", StorageKey, 0)>>
    \o (IF o.exc = "get_object" THEN <<>> ELSE <<Call("pandoc", <<>>, 0)>>)

\* (variant) the result of the conversion is never taken
TruthyNever(r) == FALSE

\* (variant) `if content is not None` in place of `if content`
TruthyNotNone(r) == ~r.isNone

\* Python truth of a value returned by extract_text_from_docx
Truthy(r) == ~r.isNone /\ r.text # <<>>

\* the texts of the LINE blocks of a page, in block order
LineTexts(blocks) ==
    LET ls == SelectSeq(blocks, LAMBDA b : b.BlockType = "LINE")
    IN  [n \in 1..Len(ls) |-> ls[n].Text]

\* get_document_analysis(JobId, NextToken): the token of page p is p
PageOf(token) == IF token = None THEN 1 ELSE token

\* (variant) the pagination stops after the first page
HasNextTokenNever(token) == FALSE

\* 'NextToken' in response
HasNextToken(token) == PageOf(token) < Len(pages)

\* document = {...} for a record of key k whose extracted text is c
DocumentOf(k, c, lm) ==
    [content       |-> c,
     title         |-> LastPiece(unquote_plus(k), "/"),
     document_id   |-> k,
     file_type     |-> FileExt(unquote_plus(k)),
     upload_date   |-> "utcnow",
     last_modified |-> lm]

\* the document prepared for indexing
Document(lm) == DocumentOf(key, content, lm)

\* (variant) a write leaves its document as the only one of the index
IndexPutOnly(idx, id, body) == {[id |-> id, body |-> body]}

\* (variant) a write adds a document without replacing the one of the same id
IndexPutAdd(idx, id, body) == idx \cup {[id |-> id, body |-> body]}

\* opensearch.index(id=..., body=...): the document with this id is replaced
IndexPut(idx, id, body) ==
    {e \in idx : e.id # id} \cup {[id |-> id, body |-> body]}

LogEntry(outcome) ==
    [kind |-> kind, raised |-> raised, content |-> content, head |-> head,
     outcome |-> outcome]

extractVars == <<job_status, status, polls, pages, next_token, text_content, fetched,
                 docx_outcome>>
ExtractReset ==
    /\ job_status' = "none"
    /\ status' = "none"
    /\ polls' = 0
    /\ pages' = <<>>
    /\ next_token' = None
    /\ text_content' = <<>>
    /\ fetched' = <<>>
    /\ docx_outcome' = NoOutcome
    /\ calls' = <<>>
storeVars == <<index, lastCommit>>
batchVars == <<batch, i, key, statusCode, log, hcalls, head>>
handlerVars == <<batchVars, pc, content, kind, branch, raised, extractVars,
                 document, calls>>

(***************************************************************************)
(* lambda_handler                                                          *)
(***************************************************************************)
\* lambda_handler is invoked with an event of 1..MaxBatch records
Invoke ==
    /\ pc = "idle"
    /\ \E b \in Batches : batch' = b
    /\ i' = 0
    /\ pc' = "loop"
    /\ statusCode' = 0
    /\ log' = <<>>
    /\ key' = <<>>
    /\ calls' = <<>>
    /\ hcalls' = <<>>
    /\ content' = <<>>
    /\ kind' = "none"
    /\ branch' = "none"
    /\ raised' = FALSE
    /\ head' = "none"
    /\ document' = NoDoc
    /\ UNCHANGED <<storeVars, extractVars>>
    /\ UNCHANGED <<concVars, queryVars>>

\* for record in event['Records']: the next record
NextRecord ==
    /\ pc = "loop"
    /\ i < Len(batch)
    /\ i' = i + 1
    /\ key' = batch[i + 1]
    /\ pc' = "extract"
    /\ calls' = <<>>
    /\ hcalls' = <<>>
    /\ content' = <<>>
    /\ kind' = "none"
    /\ branch' = "none"
    /\ raised' = FALSE
    /\ head' = "none"
    /\ document' = NoDoc
    /\ UNCHANGED <<storeVars, batch, statusCode, log, extractVars>>
    /\ UNCHANGED <<concVars, queryVars>>

\* the loop is exhausted: return statusCode 200
Finish ==
    /\ pc = "loop"
    /\ i = Len(batch)
    /\ statusCode' = 200
    /\ pc' = "returned"
    /\ UNCHANGED <<storeVars, batch, i, key, log, content, kind, branch,
                   raised, extractVars, head, document, calls, hcalls>>
    /\ UNCHANGED <<concVars, queryVars>>

(***************************************************************************)
(* extract_text_from_file                                                  *)
(***************************************************************************)
\* txt, json, md: s3.get_object and decode; an exception returns str(e)
ReadPlain ==
    /\ pc = "extract"
    /\ Category(decoded_key) = "PlainText"
    /\ calls' = Append(calls, Call("get_object", StorageKey, 0))
    /\ \/ \E b \in Bodies :
            /\ content' = b
            /\ kind' = IF b = <<>> THEN "Empty" ELSE "Success"
            /\ raised' = FALSE
       \/ /\ content' = ErrS3
          /\ kind' = "Failure"
          /\ raised' = TRUE
    /\ branch' = "PlainText"
    /\ pc' = "extracted"
    /\ UNCHANGED <<storeVars, batchVars, extractVars, document>>
    /\ UNCHANGED <<concVars, queryVars>>

\* docx, doc: pandoc first; a falsy result falls back to Textract
ConvertDocx ==
    /\ pc = "extract"
    /\ Category(decoded_key) = "OfficeDocument"
    /\ branch' = "OfficeDocument"
    /\ \E o \in DocxOutcomes :
          /\ docx_outcome' = o
          /\ calls' = calls \o DocxCalls(o)
          /\ IF Truthy(extract_text_from_docx(o))
             THEN /\ content' = extract_text_from_docx(o).text
                  /\ kind' = "Success"
                  /\ pc' = "extracted"
             ELSE /\ content' = <<>>
                  /\ kind' = "none"
                  /\ pc' = "fallback"
    /\ UNCHANGED <<storeVars, batchVars, job_status, status, polls, pages,
                   next_token, text_content, fetched, document, raised>>
    /\ UNCHANGED <<concVars, queryVars>>

\* any other extension: return "Unsupported file type: <ext>"
Unsupported ==
    /\ pc = "extract"
    /\ Category(decoded_key) = "Unsupported"
    /\ content' = <<"Unsupported file type: ">> \o FileExt(decoded_key)
    /\ kind' = "Failure"
    /\ branch' = "Unsupported"
    /\ pc' = "extracted"
    /\ UNCHANGED <<storeVars, batchVars, extractVars, document, raised, calls>>
    /\ UNCHANGED <<concVars, queryVars>>

\* textract.start_document_analysis for the original key
StartTextract ==
    /\ \/ /\ pc = "extract"
          /\ Category(decoded_key) = "ScannedOrImage"
          /\ branch' = "ScannedOrImage"
       \/ /\ pc = "fallback"
          /\ UNCHANGED branch
    /\ calls' = Append(calls, Call("start_document_analysis", StorageKey, 0))
    /\ \/ /\ pc' = "poll"
          /\ job_status' = "IN_PROGRESS"
          /\ UNCHANGED <<content, kind, raised>>
       \/ /\ content' = ErrTextract
          /\ kind' = "Failure"
          /\ raised' = TRUE
          /\ pc' = "extracted"
          /\ UNCHANGED job_status
    /\ UNCHANGED <<storeVars, batchVars, status, polls, pages, next_token,
                   text_content, fetched, docx_outcome, document>>
    /\ UNCHANGED <<concVars, queryVars>>


\* the Textract service ends the job; a job that succeeded has result pages
JobEnds ==
    /\ pc = "poll"
    /\ job_status = "IN_PROGRESS"
    /\ \E st \in JobStatuses \ {"IN_PROGRESS"} :
          /\ job_status' = st
          /\ IF st = "SUCCEEDED"
             THEN \E j \in Jobs : pages' = j
             ELSE pages' = <<>>
    /\ UNCHANGED <<storeVars, batchVars, pc, content, kind, branch, raised,
                   status, polls, next_token, text_content, fetched, docx_outcome,
                   document, calls>>
    /\ UNCHANGED <<concVars, queryVars>>

\* one iteration of the status loop: get_document_analysis(JobId), then
\* break on SUCCEEDED or FAILED, time.sleep(3) otherwise
Poll ==
    /\ pc = "poll"
    /\ \/ /\ job_status \notin {"SUCCEEDED", "FAILED"}
          /\ polls < MaxPolls
          /\ polls' = polls + 1
          /\ status' = job_status
          /\ calls' = calls \o <<Call("get_document_analysis", <<>>, None),
                                 Call("sleep", <<>>, PollInterval)>>
          /\ UNCHANGED <<pc, content, kind, raised>>
       \/ /\ job_status = "SUCCEEDED"
          /\ calls' = Append(calls, Call("get_document_analysis", <<>>, None))
          /\ pc' = "pages"
          /\ status' = job_status
          /\ UNCHANGED <<polls, content, kind, raised>>
       \/ /\ job_status = "FAILED"
          /\ calls' = Append(calls, Call("get_document_analysis", <<>>, None))
          /\ \E m \in StatusMessages :
                content' = <<"Error processing document: ">>
                           \o (IF m = <<>> THEN <<"Unknown error">> ELSE m)
          /\ kind' = "Failure"
          /\ pc' = "extracted"
          /\ status' = job_status
          /\ UNCHANGED <<polls, raised>>
       \/ /\ calls' = Append(calls, Call("get_document_analysis", <<>>, None))
          /\ content' = ErrTextract
          /\ kind' = "Failure"
          /\ raised' = TRUE
          /\ pc' = "extracted"
          /\ UNCHANGED <<polls, status>>
    /\ UNCHANGED <<storeVars, batchVars, job_status, pages, next_token,
                   text_content, fetched, docx_outcome, document, branch>>
    /\ UNCHANGED <<concVars, queryVars>>

\* one iteration of the pagination loop
FetchPage ==
    /\ pc = "pages"
    /\ calls' = Append(calls, Call("get_document_analysis", <<>>, next_token))
    /\ \/ /\ fetched' = Append(fetched, PageOf(next_token))
          /\ text_content' = text_content \o LineTexts(pages[PageOf(next_token)])
          /\ IF HasNextToken(next_token)
             THEN /\ next_token' = PageOf(next_token) + 1
                  /\ UNCHANGED <<pc, content, kind>>
             ELSE /\ content' = Join(text_content')
                  /\ kind' = IF content' = <<>> THEN "Empty" ELSE "Success"
                  /\ pc' = "extracted"
                  /\ UNCHANGED next_token
          /\ UNCHANGED raised
       \/ /\ content' = ErrTextract
          /\ kind' = "Failure"
          /\ raised' = TRUE
          /\ pc' = "extracted"
          /\ UNCHANGED <<fetched, text_content, next_token>>
    /\ UNCHANGED <<storeVars, batchVars, job_status, status, polls, pages,
                   docx_outcome, document, branch>>
    /\ UNCHANGED <<concVars, queryVars>>

(***************************************************************************)
(* lambda_handler, after the extraction                                    *)
(***************************************************************************)
\* the Key= argument of s3.head_object
HeadKey == key

\* (variant) `if content is None` in place of `if not content`
NotContentNever(c) == FALSE

\* not content
NotContent(c) == c = <<>>

\* (variant) the LastModified of the metadata is not taken over
LastModifiedDefault(h) == "utcnow"

\* last_modified: metadata['LastModified'] when head_object answered, the
\* default datetime.utcnow() when it raised
LastModified(h) == IF h = "ok" THEN "LastModified" ELSE "utcnow"

\* if not content: continue
Skip ==
    /\ pc = "extracted"
    /\ NotContent(content)
    /\ log' = Append(log, LogEntry("skipped"))
    /\ pc' = "loop"
    /\ ExtractReset
    /\ UNCHANGED <<storeVars, batch, i, key, statusCode, content,
                   kind, branch, raised, head, document, hcalls>>
    /\ UNCHANGED <<concVars, queryVars>>

\* head_object (its failure keeps the default last_modified) and the
\* document prepared for indexing
Assemble ==
    /\ pc = "extracted"
    /\ ~NotContent(content)
    /\ hcalls' = Append(hcalls, Call("head_object", HeadKey, 0))
    /\ \E h \in {"ok", "raised"} :
          /\ head' = h
          /\ document' = Document(LastModified(h))
    /\ pc' = "commit"
    /\ ExtractReset
    /\ UNCHANGED <<storeVars, batch, i, key, statusCode, log, content, kind,
                   branch, raised>>
    /\ UNCHANGED <<concVars, queryVars>>

\* (variant) a failed index write is tried again
CommitErrorPcRetry == "commit"

\* where control goes when opensearch.index raises: `raise e` leaves the loop
\* for the handler's except clause, which returns
CommitErrorPc == "returned"

\* opensearch.index; an exception is re-raised to the handler's except,
\* which returns statusCode 500
Commit ==
    /\ pc = "commit"
    /\ hcalls' = Append(hcalls, Call("index", IndexId, 0))
    /\ \/ /\ index' = IndexPut(index, IndexId, document)
          /\ lastCommit' = (IndexId :> document) @@ lastCommit
          /\ log' = Append(log, LogEntry("committed"))
          /\ pc' = "loop"
          /\ UNCHANGED statusCode
       \/ /\ log' = Append(log, LogEntry("commit_failed"))
          /\ statusCode' = 500
          /\ pc' = CommitErrorPc
          /\ UNCHANGED storeVars
    /\ UNCHANGED <<batch, i, key, content, kind, branch, raised,
                   extractVars, head, document, calls>>
    /\ UNCHANGED <<concVars, queryVars>>

Next ==
    \/ Invoke
    \/ NextRecord
    \/ Finish
    \/ ReadPlain
    \/ ConvertDocx
    \/ Unsupported
    \/ StartTextract
    \/ JobEnds
    \/ Poll
    \/ FetchPage
    \/ Skip
    \/ Assemble
    \/ Commit

Spec == Init /\ [][Next]_vars


(***************************************************************************)
(* The dispatch of extract_text_from_file alone, over a wide set of keys:  *)
(* the handler has just called extract_text_from_file(bucket, key).        *)
(***************************************************************************)
Stems == {<<>>, <<"a">>, <<"d",".","v","/","a">>, <<"r","%","2","E">>}
Suffixes ==
    TextExts \cup OfficeExts \cup OcrExts
    \cup {<<"e","x","e">>, <<>>, <<"T","X","T">>, <<"P","d","f">>,
          <<"D","o","c","X">>, <<"t","x","t","+">>}
ClassifyKeys ==
    {s \o d \o e : s \in Stems, d \in {<<>>, <<".">>}, e \in Suffixes} \ {<<>>}

InitClassify ==
    /\ index = {}
    /\ lastCommit = [k \in {} |-> NoDoc]
    /\ \E k \in ClassifyKeys : batch = <<k>> /\ key = k
    /\ i = 1
    /\ pc = "extract"
    /\ content = <<>>
    /\ kind = "none"
    /\ branch = "none"
    /\ docx_outcome = NoOutcome
    /\ raised = FALSE
    /\ job_status = "none"
    /\ status = "none"
    /\ polls = 0
    /\ pages = <<>>
    /\ next_token = None
    /\ text_content = <<>>
    /\ fetched = <<>>
    /\ head = "none"
    /\ document = NoDoc
    /\ statusCode = 0
    /\ calls = <<>>
    /\ hcalls = <<>>
    /\ log = <<>>
    /\ ConcIdle
    /\ QueryIdle

NextClassify ==
    \/ ReadPlain
    \/ ConvertDocx
    \/ Unsupported
    \/ StartTextract

SpecClassify == InitClassify /\ [][NextClassify]_vars

(***************************************************************************)
(* Several invocations of lambda_handler running side by side on one       *)
(* index.  An invocation shares nothing with the others but the index:     *)
(* the extraction and head_object of a record work on the invocation's own *)
(* locals, so they are taken as one step; the call of opensearch.index is  *)
(* the step at which invocations interleave.                               *)
(***************************************************************************)
ConcKeys == {KeyTxt, KeyPdf}

\* the text invocation p extracts: invocations that read an object at
\* different times may see different texts
TextOf(p) == [n \in 1..p |-> "line"]

\* lambda_handler is invoked with an event of 1..MaxBatch records
ConcInvoke(p) ==
    /\ inv[p].pc = "idle"
    /\ \E n \in 1..MaxBatch :
          inv' = [inv EXCEPT ![p] = [@ EXCEPT !.pc = "loop", !.left = n]]
    /\ UNCHANGED <<storeVars, handlerVars, replaced, queryVars>>

\* the next record: extraction with a text, head_object, the document
ConcPrepare(p) ==
    /\ inv[p].pc = "loop"
    /\ inv[p].left > 0
    /\ \E k \in ConcKeys, h \in {"ok", "raised"} :
          inv' = [inv EXCEPT ![p] =
                    [@ EXCEPT !.pc = "commit",
                              !.key = k,
                              !.document = DocumentOf(k, TextOf(p), LastModified(h))]]
    /\ UNCHANGED <<storeVars, handlerVars, replaced, queryVars>>

\* the next record: the extraction gave no text, `continue`
ConcSkip(p) ==
    /\ inv[p].pc = "loop"
    /\ inv[p].left > 0
    /\ inv' = [inv EXCEPT ![p] = [@ EXCEPT !.left = @ - 1]]
    /\ UNCHANGED <<storeVars, handlerVars, replaced, queryVars>>

\* opensearch.index(id=key, body=document) of invocation p
ConcCommit(p) ==
    /\ inv[p].pc = "commit"
    /\ \/ /\ index' = IndexPut(index, inv[p].key, inv[p].document)
          /\ lastCommit' = (inv[p].key :> inv[p].document) @@ lastCommit
          /\ replaced' =
                IF \E e \in index : /\ e.id = inv[p].key
                                     /\ e.body.content # inv[p].document.content
                THEN replaced \cup {inv[p].key}
                ELSE replaced
          /\ inv' = [inv EXCEPT ![p] =
                       [@ EXCEPT !.pc = "loop", !.left = @ - 1,
                                 !.key = <<>>, !.document = NoDoc]]
       \/ /\ inv' = [inv EXCEPT ![p] =
                       [@ EXCEPT !.pc = CommitErrorPc, !.statusCode = 500,
                                 !.key = <<>>, !.document = NoDoc]]
          /\ UNCHANGED <<storeVars, replaced>>
    /\ UNCHANGED <<handlerVars, queryVars>>

\* the loop is exhausted: return statusCode 200
ConcFinish(p) ==
    /\ inv[p].pc = "loop"
    /\ inv[p].left = 0
    /\ inv' = [inv EXCEPT ![p] = [@ EXCEPT !.pc = "returned", !.statusCode = 200]]
    /\ UNCHANGED <<storeVars, handlerVars, replaced, queryVars>>

NextConc ==
    \/ \E p \in Invocations : ConcInvoke(p)
    \/ \E p \in Invocations : ConcPrepare(p)
    \/ \E p \in Invocations : ConcSkip(p)
    \/ \E p \in Invocations : ConcCommit(p)
    \/ \E p \in Invocations : ConcFinish(p)

SpecConc == Init /\ [][NextConc]_vars

(***************************************************************************)
(* The search function (lambdas/ai_search): lambda_handler, retrieve_docs  *)
(* and generate_response.                                                  *)
(***************************************************************************)
\* generate_response(query, retrieved_docs, max_retries=3)
max_retries == 3

\* number of hits a search returns at most (the code asks for at most 5)
MaxHits == 2

Queries == {<<"leave policy">>, <<"vpn">>}

Hit(t, c) == [source |-> [title |-> t, content |-> c]]
Hits == {Hit(<<"a.txt">>, TextA), Hit(<<"b.pdf">>, TextB)}
\* response["hits"]["hits"]: a list of 0..MaxHits hits
HitLists == UNION {[1..n -> Hits] : n \in 0..MaxHits}

\* the text of the first 'text' item of the model's response body
ModelTexts == {<<>>, <<"answer">>}

\* how bedrock_client.invoke_model and the reading of its response end
InvokeOutcomes == {"text", "unparsable", "ClientError", "Boto3Error", "other"}
ServiceErrors == {"ClientError", "Boto3Error"}

NoDocsText      == <<"No relevant documents found.">>
UnparsableText  == <<"Error: Unable to parse model response.">>
BedrockErrText  == <<"Error generating response from Bedrock.">>
NoValidText     == <<"Error: No valid response from Bedrock AI.">>

Response(code, err, q, r, src) ==
    [statusCode |-> code, error |-> err, query |-> q, response |-> r,
     sources |-> src]

\* (variant) the documents are not tested before the model is called
NotDocsNever(d) == FALSE

\* not retrieved_docs
NotDocs(d) == d = <<>>

\* (variant) `2 * attempt` in place of `2 ** attempt`
BackoffTimes(a) == 2 * a

\* time.sleep(2 ** attempt)
Backoff(a) == 2 ^ a

\* attempt == max_retries - 1
IsLastAttempt(a) == a = max_retries - 1

\* lambda_handler up to the call of retrieve_docs: the body and the query
\* are required (400); a body that is not JSON raises (500)
QInvoke ==
    /\ qpc = "idle"
    /\ \/ /\ response' = Response(400, <<"Missing request body">>, <<>>, <<>>, <<>>)
          /\ qpc' = "returned"
          /\ UNCHANGED query
       \/ /\ response' = Response(500, <<"JSONDecodeError">>, <<>>, <<>>, <<>>)
          /\ qpc' = "returned"
          /\ UNCHANGED query
       \/ /\ response' = Response(400, <<"Missing 'query' parameter">>, <<>>, <<>>, <<>>)
          /\ qpc' = "returned"
          /\ UNCHANGED query
       \/ /\ \E q \in Queries : query' = q
          /\ qpc' = "search"
          /\ UNCHANGED response
    /\ UNCHANGED <<retrieved_docs, attempt, ai_response, qcalls>>
    /\ UNCHANGED <<storeVars, handlerVars, concVars>>

\* retrieve_docs: the hits of client.search; an OpenSearchException gives
\* []; any other exception reaches the handler's except (500)
RetrieveDocs ==
    /\ qpc = "search"
    /\ \/ /\ \E h \in HitLists : retrieved_docs' = h
          /\ qcalls' = Append(qcalls, Call("search", <<"hits">>, 0))
          /\ qpc' = "generate"
          /\ UNCHANGED response
       \/ /\ retrieved_docs' = <<>>
          /\ qcalls' = Append(qcalls, Call("search", <<"OpenSearchException">>, 0))
          /\ qpc' = "generate"
          /\ UNCHANGED response
       \/ /\ qcalls' = Append(qcalls, Call("search", <<"other">>, 0))
          /\ response' = Response(500, <<"other">>, <<>>, <<>>, <<>>)
          /\ qpc' = "returned"
          /\ UNCHANGED retrieved_docs
    /\ UNCHANGED <<query, attempt, ai_response>>
    /\ UNCHANGED <<storeVars, handlerVars, concVars>>

\* generate_response without documents
NoDocuments ==
    /\ qpc = "generate"
    /\ NotDocs(retrieved_docs)
    /\ ai_response' = NoDocsText
    /\ qpc' = "respond"
    /\ UNCHANGED <<query, retrieved_docs, attempt, response, qcalls>>
    /\ UNCHANGED <<storeVars, handlerVars, concVars>>

\* one iteration of `for attempt in range(max_retries)`
InvokeModel ==
    /\ qpc = "generate"
    /\ ~NotDocs(retrieved_docs)
    /\ attempt < max_retries
    /\ \E o \in InvokeOutcomes :
          LET called == Append(qcalls, Call("invoke_model", <<o>>, attempt)) IN
          \/ /\ o = "text"
             /\ \E t \in ModelTexts : ai_response' = t
             /\ qcalls' = called
             /\ qpc' = "respond"
             /\ UNCHANGED <<attempt, response>>
          \/ /\ o = "unparsable"
             /\ ai_response' = UnparsableText
             /\ qcalls' = called
             /\ qpc' = "respond"
             /\ UNCHANGED <<attempt, response>>
          \/ /\ o \in ServiceErrors
             /\ IF IsLastAttempt(attempt)
                THEN /\ ai_response' = BedrockErrText
                     /\ qcalls' = called
                     /\ qpc' = "respond"
                     /\ UNCHANGED attempt
                ELSE /\ qcalls' = Append(called, Call("sleep", <<>>, Backoff(attempt)))
                     /\ attempt' = attempt + 1
                     /\ IF attempt + 1 < max_retries
                        THEN UNCHANGED <<ai_response, qpc>>
                        ELSE /\ ai_response' = NoValidText
                             /\ qpc' = "respond"
             /\ UNCHANGED response
          \/ /\ o = "other"
             /\ qcalls' = called
             /\ response' = Response(500, <<"other">>, <<>>, <<>>, <<>>)
             /\ qpc' = "returned"
             /\ UNCHANGED <<attempt, ai_response>>
    /\ UNCHANGED <<query, retrieved_docs>>
    /\ UNCHANGED <<storeVars, handlerVars, concVars>>

\* return statusCode 200 with the query, the response and the sources
Respond ==
    /\ qpc = "respond"
    /\ response' = Response(200, <<>>, query, ai_response, retrieved_docs)
    /\ qpc' = "returned"
    /\ UNCHANGED <<query, retrieved_docs, attempt, ai_response, qcalls>>
    /\ UNCHANGED <<storeVars, handlerVars, concVars>>

NextQuery ==
    \/ QInvoke
    \/ RetrieveDocs
    \/ NoDocuments
    \/ InvokeModel
    \/ Respond

SpecQuery == Init /\ [][NextQuery]_vars

(***************************************************************************)
(* Properties.                                                             *)
(***************************************************************************)
\* the raw key of the current record, as delivered in the event
RawKey == batch[i]

Ops(cs, op) == {n \in 1..Len(cs) : cs[n].op = op}

Returned == pc = "returned"

\* C1: if the extraction of a record r raises, the controller still
\* attempts every other record of the batch, and every other record whose
\* extraction succeeds is committed to the index.
C1_SiblingsSurviveExtractionError ==
    Returned =>
        \A r \in 1..Len(log) :
            log[r].raised =>
                /\ Len(log) = Len(batch)
                /\ \A q \in (1..Len(log)) \ {r} :
                      log[q].kind = "Success" => log[q].outcome = "committed"

\* C2: an index commit failure ends the processing of that record only;
\* the controller goes on to extract and commit every later record.
C2_CommitFailureEndsRecordOnly ==
    Returned =>
        \A r \in 1..Len(log) :
            log[r].outcome = "commit_failed" => Len(log) = Len(batch)

\* C3: a record whose extraction ends in Failure is never committed: no
\* index write is issued for it and the index holds no failure reason.
C3_FailureNeverCommitted ==
    /\ kind = "Failure" => Ops(hcalls, "index") = {}
    /\ \A n \in 1..Len(log) :
          log[n].kind = "Failure" => log[n].outcome = "skipped"
    /\ \A e \in index :
          \A n \in 1..Len(log) :
              log[n].kind = "Failure" => e.body.content # log[n].content

\* C4: the batch result is statusCode 200; a per-record extraction failure
\* or index commit failure does not turn it into 500.
C4_BatchResultIsSuccess ==
    Returned => statusCode = 200


\* C5: every index write uses the raw key of the record as its id and as
\* the document id; the index holds at most one record per raw key, and
\* its content is that of the last acknowledged write for that key.
C5_IndexKeyedByRawKey ==
    /\ \A n \in Ops(hcalls, "index") : hcalls[n].arg = RawKey
    /\ \A e \in index :
          /\ \E n \in 1..i : batch[n] = e.id
          /\ e.body.document_id = e.id
          /\ e.id \in DOMAIN lastCommit
          /\ lastCommit[e.id] = e.body
    /\ \A e1, e2 \in index : e1.id = e2.id => e1 = e2
    /\ \A k \in DOMAIN lastCommit : \E e \in index : e.id = k

\* a key ingested twice with different contents: one entry is left
C5_Witness ==
    /\ pc = "loop"
    /\ Len(log) = 2
    /\ batch[1] = batch[2]
    /\ log[1].outcome = "committed"
    /\ log[2].outcome = "committed"
    /\ log[1].content # log[2].content
    /\ Cardinality(index) = 1
    /\ \A e \in index : e.body.content = log[2].content

TitleMyFile == <<"m","y"," ","f","i","l","e",".","t","x","t">>
TitleS1 == <<"s"," ","1",".","p","d","f">>

\* C6: every storage-layer call for a record (get_object, head_object, the
\* object location of start_document_analysis) uses the raw key as
\* delivered, never its decoded form; the decoded key gives the title: for
\* "folder/my%20file.txt" the title is "my file.txt".
C6_StorageCallsUseRawKey ==
    /\ \A n \in 1..Len(calls) :
          calls[n].op \in {"get_object", "start_document_analysis"}
              => calls[n].arg = RawKey
    /\ \A n \in Ops(hcalls, "head_object") : hcalls[n].arg = RawKey
    /\ document # NoDoc =>
          /\ RawKey = KeyTxt => document.title = TitleMyFile
          /\ RawKey = KeyPdf => document.title = TitleS1

C6_Witness ==
    /\ pc = "commit"
    /\ RawKey = KeyTxt
    /\ KeyTxt # unquote_plus(KeyTxt)
    /\ document.title = TitleMyFile
    /\ hcalls = <<Call("head_object", KeyTxt, 0)>>
    /\ kind = "Success"

\* the texts of the LINE blocks of all pages, page after page
RECURSIVE AllBlocks(_)
AllBlocks(pgs) == IF pgs = <<>> THEN <<>> ELSE pgs[1] \o AllBlocks(Tail(pgs))

ExpectedLines(pgs) ==
    LET ls == SelectSeq(AllBlocks(pgs), LAMBDA b : b.BlockType = "LINE")
    IN  [n \in 1..Len(ls) |-> ls[n].Text]

ConversionOk(o) == o.exc = "none" /\ o.rc = 0 /\ o.stdout # <<>>

\* the value returned is one the Textract branch produces
IsTextractResult ==
    \/ raised /\ content = ErrTextract
    \/ /\ job_status = "FAILED"
       /\ kind = "Failure"
       /\ content[1] = "Error processing document: "
    \/ /\ job_status = "SUCCEEDED"
       /\ content = Join(ExpectedLines(pages))

\* C7: for docx/doc the conversion is attempted first; whenever it yields
\* nothing (nonzero exit, an exception, empty output) a Textract job is
\* submitted for the same raw key before the extraction returns, and the
\* record's result is then the result of the Textract branch.
C7_OfficeFallsBackToTextract ==
    (branch = "OfficeDocument" /\ pc \in {"fallback", "poll", "pages", "extracted"}) =>
        /\ calls[1] = Call("get_object", RawKey, 0)
        /\ pc \in {"fallback", "poll", "pages"} => ~ConversionOk(docx_outcome)
        /\ pc = "extracted" =>
              IF ConversionOk(docx_outcome)
              THEN /\ content = docx_outcome.stdout
                   /\ Ops(calls, "start_document_analysis") = {}
              ELSE /\ \E n \in Ops(calls, "start_document_analysis") :
                         /\ calls[n].arg = RawKey
                         /\ \A m \in Ops(calls, "get_object") \cup Ops(calls, "pandoc") :
                               m < n
                   /\ IsTextractResult

C7_Witness ==
    /\ branch = "OfficeDocument"
    /\ pc = "extracted"
    /\ docx_outcome = [exc |-> "none", rc |-> 0, stdout |-> <<>>]
    /\ Ops(calls, "start_document_analysis") # {}
    /\ kind = "Success"

\* C8: for a job that SUCCEEDED with N pages the extraction returns the
\* texts of exactly the LINE blocks of pages 1..N, each page retrieved
\* once, in page order and block order; it stops at the first page
\* without NextToken.
C8_PaginationComplete ==
    /\ pc = "pages" =>
          /\ fetched = [n \in 1..Len(fetched) |-> n]
          /\ Len(fetched) < Len(pages)
          /\ text_content = ExpectedLines(SubSeq(pages, 1, Len(fetched)))
    /\ (pc = "extracted" /\ job_status = "SUCCEEDED" /\ kind \in {"Success", "Empty"}) =>
          /\ fetched = [n \in 1..Len(pages) |-> n]
          /\ content = Join(ExpectedLines(pages))

C8_Witness ==
    /\ pc = "extracted"
    /\ job_status = "SUCCEEDED"
    /\ Len(pages) = 2
    /\ fetched = <<1, 2>>
    /\ kind = "Success"
    /\ Len(content) > Len(Join(ExpectedLines(<<pages[1]>>)))

\* C9: for each record whose extraction succeeds with non-empty text the
\* controller issues exactly one index write: never none, never more than
\* one, also when the write fails.
C9_ExactlyOneCommit ==
    /\ Cardinality(Ops(hcalls, "index")) <= 1
    /\ (pc \in {"loop", "returned"} /\ i >= 1 /\ kind = "Success") =>
          Cardinality(Ops(hcalls, "index")) = 1
    /\ \A n \in 1..Len(log) :
          log[n].kind = "Success" => log[n].outcome \in {"committed", "commit_failed"}

\* a failed write of a successfully extracted record: one write, no retry
C9_Witness ==
    /\ pc = "returned"
    /\ statusCode = 500
    /\ kind = "Success"
    /\ Cardinality(Ops(hcalls, "index")) = 1
    /\ log[Len(log)].outcome = "commit_failed"

\* the category the documented classifier gives a decoded key: by the
\* lowercased suffix after the last '.', Unsupported when there is no '.'
HasDot(dk) == \E n \in 1..Len(dk) : dk[n] = "."

DocumentedCategory(dk) ==
    IF ~HasDot(dk) THEN "Unsupported"
    ELSE IF lower(LastPiece(dk, ".")) \in TextExts THEN "PlainText"
    ELSE IF lower(LastPiece(dk, ".")) \in OfficeExts THEN "OfficeDocument"
    ELSE IF lower(LastPiece(dk, ".")) \in OcrExts THEN "ScannedOrImage"
    ELSE "Unsupported"

\* C10: the category is derived from the lowercased suffix after the last
\* '.' of the decoded key; every other suffix and every key without a '.'
\* gives Unsupported.
C10_ClassifierAsDocumented ==
    branch # "none" => branch = DocumentedCategory(unquote_plus(RawKey))


(***************************************************************************)
(* Strategies per category                                                 *)
(***************************************************************************)
Count(op) == Cardinality(Ops(calls, op))

\* C11: the dispatcher invokes only the strategies of the record's category,
\* each at most once: a plain-text record makes one storage read and runs
\* neither the converter nor a Textract job; a pdf/image record submits one
\* Textract job and neither reads the object nor runs the converter; an
\* office record whose conversion gave text submits no Textract job; an
\* unsupported record makes no call at all.
C11_StrategiesPerCategory ==
    /\ Count("get_object") <= 1
    /\ Count("pandoc") <= 1
    /\ Count("start_document_analysis") <= 1
    /\ pc = "extracted" =>
          /\ branch = "PlainText" =>
                /\ Count("get_object") = 1
                /\ Count("pandoc") = 0
                /\ Count("start_document_analysis") = 0
          /\ branch = "ScannedOrImage" =>
                /\ Count("start_document_analysis") = 1
                /\ Count("get_object") = 0
                /\ Count("pandoc") = 0
          /\ (branch = "OfficeDocument" /\ ConversionOk(docx_outcome)) =>
                Count("start_document_analysis") = 0
          /\ branch = "Unsupported" => calls = <<>>

C11_Witness ==
    /\ pc = "extracted"
    /\ branch = "OfficeDocument"
    /\ docx_outcome = [exc |-> "none", rc |-> 0, stdout |-> TextA]
    /\ calls = <<Call("get_object", KeyDocx, 0), Call("pandoc", <<>>, 0)>>
    /\ content = TextA

(***************************************************************************)
(* Metadata retrieval                                                      *)
(***************************************************************************)
LastLog == log[Len(log)]

\* C12: a failure of head_object does not fail the record: the document is
\* still prepared, with last_modified the current time, the index write is
\* issued for it, the result of the batch is untouched and, the write
\* acknowledged, the index holds the document and the loop goes on; when
\* head_object answers, last_modified is the LastModified of the object.
C12_HeadFailureKeepsRecord ==
    /\ pc = "commit" =>
          /\ head \in {"ok", "raised"}
          /\ statusCode = 0
          /\ document.content = content
          /\ document.document_id = RawKey
          /\ head = "raised" => document.last_modified = "utcnow"
          /\ head = "ok" => document.last_modified = "LastModified"
    /\ \A n \in 1..Len(log) :
          log[n].head # "none" => log[n].outcome \in {"committed", "commit_failed"}
    /\ (pc = "loop" /\ head # "none") =>
          /\ LastLog.outcome = "committed"
          /\ LastLog.head = head
          /\ statusCode = 0
          /\ \E e \in index :
                /\ e.id = RawKey
                /\ e.body.content = content
                /\ e.body.last_modified =
                      (IF head = "raised" THEN "utcnow" ELSE "LastModified")

C12_Witness ==
    /\ pc = "extract"
    /\ i = 2
    /\ Len(log) = 1
    /\ log[1].head = "raised"
    /\ log[1].outcome = "committed"
    /\ \E e \in index : e.id = batch[1] /\ e.body.last_modified = "utcnow"

(***************************************************************************)
(* The status loop                                                         *)
(***************************************************************************)
\* C14: after the job is submitted its status is polled with a wait of 3
\* seconds between polls, and the loop is left at the first poll that
\* reports a status other than IN_PROGRESS: the loop is still running only
\* if the last status reported was IN_PROGRESS, and an extraction that
\* returned without an exception saw the job SUCCEEDED or FAILED.
C14_PollLoopLeavesOnNonPending ==
    /\ \A n \in Ops(calls, "sleep") :
          /\ calls[n].n = 3
          /\ n > 1 /\ calls[n - 1].op = "get_document_analysis"
    /\ (pc = "poll" /\ status # "none") => status = "IN_PROGRESS"
    /\ (pc = "extracted" /\ job_status # "none" /\ ~raised) =>
          status \in {"SUCCEEDED", "FAILED"}

(***************************************************************************)
(* A failed job                                                            *)
(***************************************************************************)
\* C15: when the job ends FAILED no result page is fetched and the value
\* returned carries the status message of the service; that value is told
\* apart from extracted text, so the handler never prepares a document
\* for the index from it.
C15_FailedJobIsNotContent ==
    /\ (pc = "extracted" /\ status = "FAILED") =>
          /\ fetched = <<>>
          /\ Count("get_document_analysis") = polls + 1
          /\ kind = "Failure"
          /\ content[1] = "Error processing document: "
          /\ <<content[2]>> \in (StatusMessages \ {<<>>}) \cup {<<"Unknown error">>}
    /\ pc = "commit" => document.content[1] # "Error processing document: "

(***************************************************************************)
(* The conversion of office documents                                      *)
(***************************************************************************)
\* C16: extract_text_from_docx never raises; the output of the converter is
\* the record's text only when pandoc exits 0 with a non-empty output; a
\* nonzero exit, any exception and an empty output all give a result on
\* which the dispatcher falls back to Textract.
C16_DocxNeverRaisesAndFallsBack ==
    docx_outcome # NoOutcome =>
        /\ pc \in {"fallback", "poll", "pages", "extracted"}
        /\ ConversionOk(docx_outcome) =>
              /\ pc = "extracted"
              /\ kind = "Success"
              /\ content = docx_outcome.stdout
              /\ ~raised
        /\ ~ConversionOk(docx_outcome) =>
              /\ pc = "fallback" => (content = <<>> /\ ~raised /\ kind = "none")
              /\ pc # "fallback" => Count("start_document_analysis") = 1

C16_Witness ==
    /\ pc = "fallback"
    /\ docx_outcome = [exc |-> "none", rc |-> 1, stdout |-> TextB]
    /\ content = <<>>
    /\ ~raised

(***************************************************************************)
(* Records without text                                                    *)
(***************************************************************************)
\* C17: a record whose extraction gave an empty text is skipped: the step
\* taken from it makes no head_object call and no index write, leaves the
\* index and the result of the batch as they were and returns to the loop
\* for the next record.
C17_EmptyTextIsSkipped ==
    [][(pc = "extracted" /\ content = <<>>) =>
          /\ index' = index
          /\ lastCommit' = lastCommit
          /\ hcalls' = hcalls
          /\ statusCode' = statusCode
          /\ document' = document
          /\ pc' = "loop"
          /\ i' = i
          /\ batch' = batch]_vars

C17_Witness ==
    /\ pc = "loop"
    /\ i = 2
    /\ Len(log) = 2
    /\ log[1].outcome = "committed"
    /\ log[2].outcome = "skipped"
    /\ log[2].kind = "Empty"
    /\ Cardinality(index) = 1
    /\ hcalls = <<>>

(***************************************************************************)
(* Concurrent invocations                                                  *)
(***************************************************************************)
\* C13: with two or more invocations of the handler running concurrently,
\* in every interleaving the index holds at most one document per id; a
\* write to one key never removes or changes the document of another key;
\* for writes to the same key the index holds exactly the document of the
\* write applied last.
C13_ConcurrentCommitsOnePerId ==
    /\ \A e1, e2 \in index : e1.id = e2.id => e1 = e2
    /\ DOMAIN lastCommit = {e.id : e \in index}
    /\ \A e \in index : e.body = lastCommit[e.id]

C13_Witness ==
    /\ \A p \in Invocations : inv[p].pc = "returned" /\ inv[p].statusCode = 200
    /\ replaced = {KeyTxt}
    /\ index = {[id |-> KeyTxt, body |-> DocumentOf(KeyTxt, TextOf(1), "utcnow")],
                [id |-> KeyPdf, body |-> DocumentOf(KeyPdf, TextOf(2), "LastModified")]}

(***************************************************************************)
(* The retries of generate_response                                        *)
(***************************************************************************)
Invokes == Ops(qcalls, "invoke_model")
Sleeps  == Ops(qcalls, "sleep")
FailedInvokes == {n \in Invokes : qcalls[n].arg[1] \in ServiceErrors}

\* C18: generate_response calls the model at most 3 times and makes no call
\* after the first one that does not raise a service error; after the k-th
\* failed call, k = 1, 2, it waits 2^(k-1) seconds (1, then 2) before the
\* next call; after the third service error in a row it returns the error
\* text without a wait and without another call.
C18_BoundedRetriesWithBackoff ==
    /\ Cardinality(Invokes) <= 3
    /\ \A n \in Invokes :
          /\ n \notin FailedInvokes => n = Len(qcalls)
          /\ qcalls[n].n = Cardinality({m \in Invokes : m < n})
          /\ qcalls[n].n > 0 => qcalls[n - 1].op = "sleep"
    /\ \A n \in Sleeps :
          LET k == Cardinality({m \in Invokes : m < n}) IN
          /\ n - 1 \in FailedInvokes
          /\ k \in {1, 2}
          /\ qcalls[n].n = (IF k = 1 THEN 1 ELSE 2)
    /\ \A n \in FailedInvokes :
          qcalls[n].n < 2 => (n < Len(qcalls) /\ qcalls[n + 1].op = "sleep")
    /\ Cardinality(FailedInvokes) = 3 =>
          /\ Len(qcalls) \in Invokes
          /\ Cardinality(Sleeps) = 2
          /\ qpc \in {"respond", "returned"}
          /\ ai_response = BedrockErrText

C18_Witness ==
    /\ qpc = "returned"
    /\ response = Response(200, <<>>, query, BedrockErrText, retrieved_docs)
    /\ qcalls = <<Call("search", <<"hits">>, 0),
                  Call("invoke_model", <<"ClientError">>, 0),
                  Call("sleep", <<>>, 1),
                  Call("invoke_model", <<"Boto3Error">>, 1),
                  Call("sleep", <<>>, 2),
                  Call("invoke_model", <<"ClientError">>, 2)>>

(***************************************************************************)
(* A search without documents                                              *)
(***************************************************************************)
\* the search returned no document, or failed with an OpenSearchException
SearchGaveNothing ==
    /\ qcalls # <<>>
    /\ qcalls[1].op = "search"
    /\ qcalls[1].arg # <<"other">>
    /\ retrieved_docs = <<>>

\* C19: when the search returns no document, an OpenSearchException taken
\* as an empty list included, the model is never called and the handler
\* returns statusCode 200 with the response "No relevant documents found."
\* and an empty list of sources.
C19_NoDocumentsNoGeneration ==
    SearchGaveNothing =>
        /\ Invokes = {}
        /\ Sleeps = {}
        /\ qpc \in {"generate", "respond", "returned"}
        /\ qpc = "respond" => ai_response = NoDocsText
        /\ qpc = "returned" =>
              response = Response(200, <<>>, query, NoDocsText, <<>>)

C19_Witness ==
    /\ qpc = "returned"
    /\ qcalls = <<Call("search", <<"OpenSearchException">>, 0)>>
    /\ response = Response(200, <<>>, <<"vpn">>, NoDocsText, <<>>)

====
